---------------------------- MODULE Spec2Model ----------------------------
(***************************************************************************)
(* A model of neuroimaging/data_io/formats/nifti1.py: the NIFTI-1 header   *)
(* schema, the element-type tables, opening a file for reading             *)
(* (Nifti1.__init__), the geometry resolver (Nifti1.transform) and the     *)
(* write-time rescaling (Nifti1.prewrite).                                 *)
(*                                                                         *)
(* Floating point values are modelled as exact rationals <<n, d>> with     *)
(* d > 0 in lowest terms (d = 0 stands for an IEEE infinity or NaN);       *)
(* rounding is not modelled.  Integer header fields are integers, string   *)
(* fields are strings.                                                     *)
(***************************************************************************)
EXTENDS Integers, Sequences, FiniteSets, TLC

VARIABLES
    header,      \* self.header: field name -> value
    status,      \* outcome of the last constructor call ("closed" before it)
    byteorder,   \* self.byteorder
    dtype,       \* self.dtype: [sctype, native]
    ndim,        \* self.ndim
    canonical,   \* self.canonical_fields
    t,           \* the matrix transform() returned to the constructor
    attached,    \* attach_data has run: self.data exists
    mode,        \* self.mode
    use_memmap,  \* self.use_memmap
    hdrfile,     \* header record as stored in the header resource
    hdrmode,     \* mode the last prewrite call opened the header resource in
    data,        \* self.data: the stored (raw) samples
    pc,          \* "idle", or "commit" while a payload awaits the caller's write
    payload,     \* the array prewrite returned
    call,        \* what the last prewrite call saw and did
    nwrites      \* number of prewrite calls so far

vars == <<header, status, byteorder, dtype, ndim, canonical, t, attached,
          mode, use_memmap, hdrfile, hdrmode, data, pc, payload, call, nwrites>>

NoValue == "None"
\* a matrix, an array or a mapping that does not exist (yet)
Nothing == << >>
\* self.dtype before the element type is resolved
NoDtype == [ sctype |-> NoValue, native |-> FALSE ]

-----------------------------------------------------------------------------
(* Rational arithmetic standing for Python / numpy floats.                 *)

Abs(n) == IF n < 0 THEN -n ELSE n

RECURSIVE GCD(_, _)
GCD(a, b) == IF b = 0 THEN a ELSE GCD(b, a % b)

\* greatest common divisor, 1 for (0, 0)
G(a, b) == LET g == GCD(Abs(a), Abs(b)) IN IF g = 0 THEN 1 ELSE g

Rat(n, d) ==
    IF d = 0 THEN << (IF n > 0 THEN 1 ELSE IF n < 0 THEN -1 ELSE 0), 0 >>
    ELSE LET g == G(n, d)
             s == IF d < 0 THEN -1 ELSE 1
         IN  << (s * n) \div g, (s * d) \div g >>

R(n) == << n, 1 >>
RAdd(a, b) ==
    LET g == G(a[2], b[2])
    IN  Rat(a[1] * (b[2] \div g) + b[1] * (a[2] \div g), (a[2] \div g) * b[2])
RSub(a, b) == RAdd(a, << -b[1], b[2] >>)
RMul(a, b) ==
    LET g1 == G(a[1], b[2])
        g2 == G(b[1], a[2])
    IN  Rat((a[1] \div g1) * (b[1] \div g2), (a[2] \div g2) * (b[2] \div g1))
RInv(a) == IF a[1] < 0 THEN << -a[2], -a[1] >> ELSE << a[2], a[1] >>
RDiv(a, b) == RMul(a, RInv(b))
RLt(a, b) ==
    LET g == G(a[2], b[2])
    IN  a[1] * (b[2] \div g) < b[1] * (a[2] \div g)
RLe(a, b) == ~RLt(b, a)
RMax2(a, b) == IF RLt(a, b) THEN b ELSE a
RMin2(a, b) == IF RLt(b, a) THEN b ELSE a

RECURSIVE RMax(_)
RMax(s) == IF Len(s) = 1 THEN s[1] ELSE RMax2(s[1], RMax(Tail(s)))

RECURSIVE RMin(_)
RMin(s) == IF Len(s) = 1 THEN s[1] ELSE RMin2(s[1], RMin(Tail(s)))

ISqrt(n) == CHOOSE k \in 0..n : k * k <= n /\ (k + 1) * (k + 1) > n

\* math.sqrt on the rationals the model draws (perfect squares)
RSqrt(a) == Rat(ISqrt(a[1]), ISqrt(a[2]))

\* C conversion of a finite float to an integer: truncation toward zero
Trunc(a) == IF a[1] >= 0 THEN a[1] \div a[2] ELSE -((-a[1]) \div a[2])

-----------------------------------------------------------------------------
(* Type tables (nifti1.py lines 21-54).                                    *)

UBYTE == 2
SHORT == 4
INTEGER == 8
FLOAT == 16
COMPLEX == 32
DOUBLE == 64
RGB == 128
INT8 == 256
UINT16 == 512
UINT32 == 768
INT64 == 1024
UINT64 == 1280
FLOAT128 == 1536
COMPLEX128 == 1792
COMPLEX256 == 2048

\* the table with RGB translated to the unsigned byte type
datatype2sctype_items_rgb ==
    << <<UBYTE, "uint8">>, <<SHORT, "int16">>, <<INTEGER, "int32">>,
       <<FLOAT, "float32">>, <<COMPLEX, "complex64">>, <<DOUBLE, "float64">>,
       <<RGB, "uint8">>,
       <<INT8, "int8">>, <<UINT16, "uint16">>, <<UINT32, "uint32">>,
       <<INT64, "int64">>, <<UINT64, "uint64">>, <<COMPLEX128, "complex128">> >>

\* the key/value pairs of the dict literal, in source order
datatype2sctype_items ==
    << <<UBYTE, "uint8">>, <<SHORT, "int16">>, <<INTEGER, "int32">>,
       <<FLOAT, "float32">>, <<COMPLEX, "complex64">>, <<DOUBLE, "float64">>,
       <<INT8, "int8">>, <<UINT16, "uint16">>, <<UINT32, "uint32">>,
       <<INT64, "int64">>, <<UINT64, "uint64">>, <<COMPLEX128, "complex128">> >>

\* dict(pairs): a mapping over the keys that occur; the last pair of a key wins
DictOf(pairs) ==
    LET keys == { pairs[i][1] : i \in 1..Len(pairs) }
        last(k) == CHOOSE i \in 1..Len(pairs) :
                      /\ pairs[i][1] = k
                      /\ \A j \in 1..Len(pairs) : pairs[j][1] = k => j <= i
    IN  [ k \in keys |-> pairs[last(k)][2] ]

datatype2sctype == DictOf(datatype2sctype_items)

sctype2datatype ==
    DictOf([ i \in 1..Len(datatype2sctype_items) |->
               << datatype2sctype_items[i][2], datatype2sctype_items[i][1] >> ])

\* N.sctypes['uint']
uint_sctypes == << "uint8", "uint16", "uint32", "uint64" >>

\* dtype.itemsize of the scalar types the table names
ItemSize(sc) ==
    CASE sc \in {"uint8", "int8"} -> 1
      [] sc \in {"int16", "uint16"} -> 2
      [] sc \in {"int32", "uint32", "float32"} -> 4
      [] sc \in {"int64", "uint64", "float64", "complex64"} -> 8
      [] OTHER -> 16

\* byte order of the machine the program runs on (little-endian; the
\* big-endian machine is the mirror image)
HostOrder == "<"

IsNative(bo) == bo = "=" \/ bo = HostOrder

\* N.dtype(sctype).newbyteorder(bo): one-byte types carry no byte order
NewDtype(sc, bo) ==
    [ sctype |-> sc,
      native |-> (ItemSize(sc) = 1 \/ IsNative(bo)) ]

\* dtype == sctype as numpy decides it: same scalar type, and the dtype in the
\* machine's byte order (a scalar type converts to the native dtype)
DtypeEq(dt, sc) == dt.sctype = sc /\ dt.native

\* self.dtype in N.sctypes['uint']
InUintSctypes(dt) == \E i \in 1..Len(uint_sctypes) : DtypeEq(dt, uint_sctypes[i])

-----------------------------------------------------------------------------
(* Header schema (nifti1.py lines 135-203).  A layout descriptor such as   *)
(* '8h' is written <<8, "h">>; a descriptor without a count ('i') has      *)
(* count 0.                                                                *)

HEADER_SIZE == 348

\* the schema without the trailing qfac entry
struct_formats_no_qfac ==
    << <<"sizeof_hdr", 0, "i">>, <<"data_type", 10, "s">>, <<"db_name", 18, "s">>,
       <<"extents", 0, "i">>, <<"session_error", 0, "h">>, <<"regular", 0, "c">>,
       <<"dim_info", 0, "B">>, <<"dim", 8, "h">>, <<"intent_p1", 0, "f">>,
       <<"intent_p2", 0, "f">>, <<"intent_p3", 0, "f">>, <<"intent_code", 0, "h">>,
       <<"datatype", 0, "h">>, <<"bitpix", 0, "h">>, <<"slice_start", 0, "h">>,
       <<"pixdim", 8, "f">>, <<"vox_offset", 0, "f">>, <<"scl_slope", 0, "f">>,
       <<"scl_inter", 0, "f">>, <<"slice_end", 0, "h">>, <<"slice_code", 0, "B">>,
       <<"xyzt_units", 0, "B">>, <<"cal_max", 0, "f">>, <<"cal_min", 0, "f">>,
       <<"slice_duration", 0, "f">>, <<"toffset", 0, "f">>, <<"glmax", 0, "i">>,
       <<"glmin", 0, "i">>, <<"descrip", 80, "s">>, <<"aux_file", 24, "s">>,
       <<"qform_code", 0, "h">>, <<"sform_code", 0, "h">>, <<"quatern_b", 0, "f">>,
       <<"quatern_c", 0, "f">>, <<"quatern_d", 0, "f">>, <<"qoffset_x", 0, "f">>,
       <<"qoffset_y", 0, "f">>, <<"qoffset_z", 0, "f">>, <<"srow_x", 4, "f">>,
       <<"srow_y", 4, "f">>, <<"srow_z", 4, "f">>, <<"intent_name", 16, "s">>,
       <<"magic", 4, "s">> >>

struct_formats ==
    << <<"sizeof_hdr", 0, "i">>, <<"data_type", 10, "s">>, <<"db_name", 18, "s">>,
       <<"extents", 0, "i">>, <<"session_error", 0, "h">>, <<"regular", 0, "c">>,
       <<"dim_info", 0, "B">>, <<"dim", 8, "h">>, <<"intent_p1", 0, "f">>,
       <<"intent_p2", 0, "f">>, <<"intent_p3", 0, "f">>, <<"intent_code", 0, "h">>,
       <<"datatype", 0, "h">>, <<"bitpix", 0, "h">>, <<"slice_start", 0, "h">>,
       <<"pixdim", 8, "f">>, <<"vox_offset", 0, "f">>, <<"scl_slope", 0, "f">>,
       <<"scl_inter", 0, "f">>, <<"slice_end", 0, "h">>, <<"slice_code", 0, "B">>,
       <<"xyzt_units", 0, "B">>, <<"cal_max", 0, "f">>, <<"cal_min", 0, "f">>,
       <<"slice_duration", 0, "f">>, <<"toffset", 0, "f">>, <<"glmax", 0, "i">>,
       <<"glmin", 0, "i">>, <<"descrip", 80, "s">>, <<"aux_file", 24, "s">>,
       <<"qform_code", 0, "h">>, <<"sform_code", 0, "h">>, <<"quatern_b", 0, "f">>,
       <<"quatern_c", 0, "f">>, <<"quatern_d", 0, "f">>, <<"qoffset_x", 0, "f">>,
       <<"qoffset_y", 0, "f">>, <<"qoffset_z", 0, "f">>, <<"srow_x", 4, "f">>,
       <<"srow_y", 4, "f">>, <<"srow_z", 4, "f">>, <<"intent_name", 16, "s">>,
       <<"magic", 4, "s">>, <<"qfac", 0, "f">> >>

FieldNames == { struct_formats[i][1] : i \in 1..Len(struct_formats) }

\* struct.calcsize of one format character in a standard (unaligned) layout
CharSize(c) ==
    CASE c \in {"i", "f"} -> 4
      [] c = "h" -> 2
      [] OTHER -> 1

\* struct.calcsize of one layout descriptor
FormatSize(fmt) == (IF fmt[2] = 0 THEN 1 ELSE fmt[2]) * CharSize(fmt[3])

RECURSIVE SumSizes(_, _)
SumSizes(fmts, n) == IF n = 0 THEN 0 ELSE SumSizes(fmts, n - 1) + FormatSize(fmts[n])

\* number of bytes the schema packs to
SchemaSize == SumSizes(struct_formats, Len(struct_formats))

\* utils.format_defaults: the zero of each primitive type
format_defaults(c) ==
    CASE c \in {"i", "h", "B"} -> 0
      [] c = "f" -> R(0)
      [] OTHER -> ""

_field_defaults ==
    [ sizeof_hdr |-> HEADER_SIZE,
      scl_slope |-> R(1),
      magic |-> "n+1",
      pixdim |-> << R(1), R(0), R(0), R(0), R(0), R(0), R(0), R(0) >>,
      vox_offset |-> R(352) ]

_default_field_value(fmt) ==
    IF fmt[1] \in DOMAIN _field_defaults THEN _field_defaults[fmt[1]]
    ELSE IF fmt[2] # 0 /\ fmt[3] # "s"
         THEN [ i \in 1..fmt[2] |-> format_defaults(fmt[3]) ]
         ELSE format_defaults(fmt[3])

header_defaults ==
    [ f \in FieldNames |->
        _default_field_value(
            struct_formats[CHOOSE i \in 1..Len(struct_formats) : struct_formats[i][1] = f]) ]

-----------------------------------------------------------------------------
(* Geometry resolver (nifti1.py lines 381-419).                            *)

ZeroRow == << R(0), R(0), R(0), R(0) >>

\* N.zeros((4,4)) with value[3,3] = 1.0
ZerosWithOne == << ZeroRow, ZeroRow, ZeroRow, << R(0), R(0), R(0), R(1) >> >>

RSq(a) == RMul(a, a)
RSum3(a, b, c) == RAdd(a, RAdd(b, c))
RTwice(a) == RMul(R(2), a)

\* nifti1_ext.quatern2mat: the unit-quaternion rotation of (a, b, c, d) with a
\* reconstructed from the unit norm (0 when b*b + c*c + d*d exceeds 1), its
\* columns scaled by dx, dy and qfac*dz, and (qx, qy, qz) as the translation
quatern2mat(b, c, d, qx, qy, qz, dx, dy, dz, qfac) ==
    LET a2 == RSub(R(1), RSum3(RSq(b), RSq(c), RSq(d)))
        a  == IF RLt(a2, R(0)) THEN R(0) ELSE RSqrt(a2)
        zs == RMul(qfac, dz)
        r11 == RSub(RAdd(RSq(a), RSq(b)), RAdd(RSq(c), RSq(d)))
        r12 == RTwice(RSub(RMul(b, c), RMul(a, d)))
        r13 == RTwice(RAdd(RMul(b, d), RMul(a, c)))
        r21 == RTwice(RAdd(RMul(b, c), RMul(a, d)))
        r22 == RSub(RAdd(RSq(a), RSq(c)), RAdd(RSq(b), RSq(d)))
        r23 == RTwice(RSub(RMul(c, d), RMul(a, b)))
        r31 == RTwice(RSub(RMul(b, d), RMul(a, c)))
        r32 == RTwice(RAdd(RMul(c, d), RMul(a, b)))
        r33 == RSub(RAdd(RSq(a), RSq(d)), RAdd(RSq(c), RSq(b)))
    IN  << << RMul(r11, dx), RMul(r12, dy), RMul(r13, zs), qx >>,
           << RMul(r21, dx), RMul(r22, dy), RMul(r23, zs), qy >>,
           << RMul(r31, dx), RMul(r32, dy), RMul(r33, zs), qz >>,
           << R(0), R(0), R(0), R(1) >> >>

\* the quatern2mat call of transform(), lines 402-411
QuaternMatrix(h) ==
    quatern2mat(h["quatern_b"], h["quatern_c"], h["quatern_d"],
                h["qoffset_x"], h["qoffset_y"], h["qoffset_z"],
                h["pixdim"][2], h["pixdim"][3], h["pixdim"][4], h["pixdim"][1])

\* value[0..2] = srow_x, srow_y, srow_z, lines 415-417
SrowMatrix(h) == << h["srow_x"], h["srow_y"], h["srow_z"], ZerosWithOne[4] >>

\* qfac not in [-1., 1.], line 394
QfacInvalid(qfac) == qfac # R(-1) /\ qfac # R(1)

QfacError == [ exc |-> "Nifti1FormatError", msg |-> "invalid qfac: orientation unknown" ]
MagicError == [ exc |-> "Nifti1FormatError", msg |-> "" ]
NoError == [ exc |-> NoValue, msg |-> "" ]

\* transform() answers with the sform rows before the quaternion
transform_sform_first(h) ==
    IF QfacInvalid(h["pixdim"][1]) THEN [ err |-> QfacError, value |-> Nothing ]
    ELSE IF h["sform_code"] > 0 THEN [ err |-> NoError, value |-> SrowMatrix(h) ]
    ELSE IF h["qform_code"] > 0 THEN [ err |-> NoError, value |-> QuaternMatrix(h) ]
    ELSE [ err |-> NoError, value |-> ZerosWithOne ]

\* transform() checks qfac only on the quaternion path
transform_qfac_in_branch(h) ==
    IF h["qform_code"] > 0
    THEN IF QfacInvalid(h["pixdim"][1]) THEN [ err |-> QfacError, value |-> Nothing ]
         ELSE [ err |-> NoError, value |-> QuaternMatrix(h) ]
    ELSE IF h["sform_code"] > 0 THEN [ err |-> NoError, value |-> SrowMatrix(h) ]
    ELSE [ err |-> NoError, value |-> ZerosWithOne ]

\* Nifti1.transform: the raised error, or the returned matrix
transform(h) ==
    IF QfacInvalid(h["pixdim"][1]) THEN [ err |-> QfacError, value |-> Nothing ]
    ELSE IF h["qform_code"] > 0 THEN [ err |-> NoError, value |-> QuaternMatrix(h) ]
    ELSE IF h["sform_code"] > 0 THEN [ err |-> NoError, value |-> SrowMatrix(h) ]
    ELSE [ err |-> NoError, value |-> ZerosWithOne ]

-----------------------------------------------------------------------------
(* Bounds and the inputs the model draws.                                  *)

\* number of samples of the stored array (its shape is (NVox, 1, 1))
NVox == 2
\* number of prewrite calls followed
MaxWrites == 2

\* Nifti1.nvector, line 207
nvector == -1

Magics == { "n+1", "ni1", "nXX" }

AllCodes == DOMAIN datatype2sctype \cup { RGB, FLOAT128, COMPLEX256, 0, 1, 3 }

DimOf(nd) == << nd, NVox, 1, 1, IF nd >= 4 THEN 1 ELSE 0, IF nd >= 5 THEN 1 ELSE 0, 0, 0 >>

Half == Rat(1, 2)

\* a matrix that is also the quaternion matrix of a zero quaternion with the
\* pixdim and offsets of GeomHeaders
SrowA == << << R(2), R(0), R(0), R(-64) >>,
            << R(0), R(2), R(0), R(-64) >>,
            << R(0), R(0), R(2), R(-40) >> >>

SrowZero == << ZeroRow, ZeroRow, ZeroRow >>

\* decoded headers that vary the magic, the element-type code and dim[0]
TypeHeaders ==
    { [ header_defaults EXCEPT !["magic"] = m, !["datatype"] = c, !["dim"] = DimOf(nd) ] :
        m \in Magics, c \in AllCodes, nd \in {3, 4, 5} }

\* decoded headers that vary the geometry fields
GeomHeaders ==
    { [ header_defaults EXCEPT
          !["magic"] = m, !["datatype"] = c, !["dim"] = DimOf(3),
          !["pixdim"] = << qf, R(2), R(2), R(2), R(0), R(0), R(0), R(0) >>,
          !["qform_code"] = qc, !["sform_code"] = sc,
          !["quatern_b"] = qb,
          !["qoffset_x"] = R(-64), !["qoffset_y"] = R(-64), !["qoffset_z"] = R(-40),
          !["srow_x"] = sr[1], !["srow_y"] = sr[2], !["srow_z"] = sr[3] ] :
        m \in Magics, c \in { FLOAT, RGB }, qf \in { R(1), R(-1), R(0), Half },
        qc \in { -1, 0, 1 }, sc \in { 0, 2 }, qb \in { R(0), Rat(3, 5) },
        sr \in { SrowZero, SrowA } }

DecodedHeaders == TypeHeaders \cup GeomHeaders

ByteOrders == { "<", ">" }

ZeroData == [ i \in 1..NVox |-> R(0) ]

-----------------------------------------------------------------------------
(* Construction (nifti1.py lines 211-310).                                 *)

\* inform_canonical(), lines 425-431
inform_canonical(h) ==
    [ datasize |-> h["bitpix"],
      ndim |-> h["dim"][1], xdim |-> h["dim"][2], ydim |-> h["dim"][3],
      zdim |-> h["dim"][4], tdim |-> h["dim"][5],
      scaling |-> h["scl_slope"] ]

\* the magic test of line 249
MagicOk(h) == h["magic"] \in { "n+1", "ni1" }

\* the state a constructor call with these steps leaves: the first failing step
\* raises, and no later step runs
ReadSteps(h, bo, m, um, d, magic_ok, code_ok) ==
    LET nd == h["dim"][1]
        axes_ok == nd = 3 \/ (nd = 4 /\ nvector <= 1)
        tr == transform(h)
        reached_dtype == magic_ok
        reached_grid == reached_dtype /\ code_ok
        reached_transform == reached_grid /\ axes_ok
        reached_attach == reached_transform /\ tr.err = NoError
        st == IF ~magic_ok THEN MagicError
              ELSE IF ~code_ok THEN [ exc |-> "KeyError", msg |-> "" ]
              ELSE IF ~axes_ok THEN [ exc |-> "UnboundLocalError", msg |-> "axisnames" ]
              ELSE tr.err
    IN  [ header |-> h, status |-> st, byteorder |-> bo, mode |-> m,
          dtype |-> IF reached_grid THEN NewDtype(datatype2sctype[h["datatype"]], bo)
                    ELSE NoDtype,
          ndim |-> IF reached_grid THEN nd ELSE 0,
          canonical |-> IF reached_grid THEN inform_canonical(h) ELSE Nothing,
          t |-> IF reached_transform THEN tr.value ELSE Nothing,
          attached |-> reached_attach,
          use_memmap |-> reached_attach /\ um,
          data |-> IF reached_attach THEN d ELSE Nothing,
          hdrfile |-> h ]

\* the constructor resolves the element type before it tests the magic
ConstructRead_type_first(h, bo, m, um, d) ==
    LET code_ok == h["datatype"] \in DOMAIN datatype2sctype
        r == ReadSteps(h, bo, m, um, d, MagicOk(h), code_ok)
    IN  IF code_ok THEN r
        ELSE [ r EXCEPT !.status = [ exc |-> "KeyError", msg |-> "" ] ]

\* Nifti1.__init__ with a mode other than "w" and no grid given, on a file that
\* decodes to header h in byte order bo and holds the samples d
ConstructRead(h, bo, m, um, d) ==
    ReadSteps(h, bo, m, um, d, MagicOk(h), h["datatype"] \in DOMAIN datatype2sctype)

\* header_from_given(), lines 334-379, for the identity grid of shape (NVox, 1, 1)
header_from_given(h, sc) ==
    [ h EXCEPT !["datatype"] = sctype2datatype[sc],
               !["bitpix"] = ItemSize(sc) * 8,
               !["quatern_b"] = R(0), !["quatern_c"] = R(0), !["quatern_d"] = R(0),
               !["qoffset_x"] = R(0), !["qoffset_y"] = R(0), !["qoffset_z"] = R(0),
               !["qfac"] = R(1),
               !["pixdim"] = << R(1), R(1), R(1), R(1), R(0), R(0), R(0), R(0) >>,
               !["qform_code"] = 1,
               !["dim"] = << 3, NVox, 1, 1, 0, 0, 0, 0 >> ]

\* Nifti1.__init__ with mode "w", a grid and dtype sc: the header is written,
\* and the data block of the new file attached
ConstructWrite(sc, um) ==
    LET h == header_from_given(header_defaults, sc)
    IN  [ header |-> h, status |-> NoError, byteorder |-> "=", mode |-> "w",
          dtype |-> NewDtype(sc, "="), ndim |-> 3,
          canonical |-> inform_canonical(h),
          t |-> Nothing, attached |-> TRUE, use_memmap |-> um,
          data |-> ZeroData, hdrfile |-> h ]

NoCall == [ x |-> Nothing ]

Closed ==
    /\ header = header_defaults
    /\ status = [ exc |-> "closed", msg |-> "" ]
    /\ byteorder = NoValue /\ dtype = NoDtype /\ ndim = 0
    /\ canonical = Nothing /\ t = Nothing /\ attached = FALSE
    /\ mode = NoValue /\ use_memmap = FALSE /\ hdrfile = Nothing
    /\ hdrmode = NoValue /\ data = Nothing /\ pc = "idle" /\ payload = Nothing
    /\ call = NoCall /\ nwrites = 0

InitOpen == Closed

Install(c) ==
    /\ header' = c.header /\ status' = c.status /\ byteorder' = c.byteorder
    /\ dtype' = c.dtype /\ ndim' = c.ndim /\ canonical' = c.canonical
    /\ t' = c.t /\ attached' = c.attached /\ mode' = c.mode
    /\ use_memmap' = c.use_memmap /\ data' = c.data /\ hdrfile' = c.hdrfile
    /\ UNCHANGED << hdrmode, pc, payload, call, nwrites >>

OpenRead ==
    /\ status.exc = "closed"
    /\ \E h \in DecodedHeaders, bo \in ByteOrders, m \in { "r", "r+" }, um \in BOOLEAN :
          Install(ConstructRead(h, bo, m, um, ZeroData))

OpenWrite ==
    /\ status.exc = "closed"
    /\ \E sc \in { "uint8", "int8", "uint16", "float32" }, um \in BOOLEAN :
          Install(ConstructWrite(sc, um))

\* the object is dropped; the next construction starts from the defaults
Close ==
    /\ status.exc # "closed"
    /\ header' = header_defaults
    /\ status' = [ exc |-> "closed", msg |-> "" ]
    /\ byteorder' = NoValue /\ dtype' = NoDtype /\ ndim' = 0
    /\ canonical' = Nothing /\ t' = Nothing /\ attached' = FALSE
    /\ mode' = NoValue /\ use_memmap' = FALSE /\ hdrfile' = Nothing
    /\ data' = Nothing
    /\ UNCHANGED << hdrmode, pc, payload, call, nwrites >>

NextOpen == OpenRead \/ OpenWrite \/ Close

SpecOpen == InitOpen /\ [][NextOpen]_vars

-----------------------------------------------------------------------------
(* Rescaling on write (nifti1.py lines 433-491).                           *)

IntegerTypes == { "uint8", "int8", "int16", "uint16", "int32", "uint32", "int64", "uint64" }

\* largest and smallest value of the integer scalar types the model draws
IntegerMax(sc) ==
    CASE sc = "uint8" -> 255
      [] sc = "int8" -> 127
      [] sc = "int16" -> 32767
      [] sc = "uint16" -> 65535

IntegerMin(sc) ==
    IF sc \in { "uint8", "uint16" } THEN 0 ELSE -(IntegerMax(sc) + 1)

\* utils.scale_data(data, new_dtype, default_scale): the smallest slope under
\* which the maximum of data fits the range of an integer element type, and
\* never less than default_scale; default_scale for the other element types
scale_data(d, dt, default_scale) ==
    IF dt.sctype \in IntegerTypes
    THEN RMax2(default_scale, RDiv(RMax(d), R(IntegerMax(dt.sctype))))
    ELSE default_scale

\* (x - scl_inter) / scl_slope, lines 462 and 489
Rescaled(x, inter, slope) == [ i \in 1..Len(x) |-> RDiv(RSub(x[i], inter), slope) ]

\* postread(x), lines 433-443
postread(x, h, um) ==
    IF ~um THEN x
    ELSE IF h["scl_slope"] # R(0)
         THEN [ i \in 1..Len(x) |-> RAdd(RMul(x[i], h["scl_slope"]), h["scl_inter"]) ]
         ELSE x

\* the condition of line 463
RescaleNeeded(x, scaled_x, d) == Len(x) = Len(d) \/ RLt(RMax(d), RMax(scaled_x))

\* minval, lines 464-467; self[:] is the stored array through postread
MinVal(x, h, um, d) ==
    IF Len(x) = Len(d) THEN RMin(x)
    ELSE RMin2(RMin(x), RMin(postread(d, h, um)))

\* the candidate intercept, lines 471-474
Intercept(dt, minval) ==
    IF InUintSctypes(dt) THEN minval
    ELSE IF RLt(R(0), minval) THEN minval ELSE R(0)

\* the scale_data call of lines 476-477 disregards the stored slope
NewScale_no_floor(x, intercept, dt, h) ==
    scale_data([ i \in 1..Len(x) |-> RSub(x[i], intercept) ], dt, R(1))

\* the scale_data call of lines 476-477
NewScale(x, intercept, dt, h) ==
    scale_data([ i \in 1..Len(x) |-> RSub(x[i], intercept) ], dt, h["scl_slope"])

\* the header is marked changed on every pass through the branch
HeaderChanged_always(scale, intercept, h) == TRUE

\* the test of lines 480-481
HeaderChanged(scale, intercept, h) ==
    scale # h["scl_slope"] \/ intercept # h["scl_inter"]

\* write_header(hdrfile=fp): the header resource holds the header record once
\* the call returns
write_header(h) == h

\* lines 479-489 and the return of line 491, given the candidate pair
MarkDown(x, h, stored, minval, intercept, scale, changed) ==
    [ header |-> IF changed
                 THEN [ h EXCEPT !["scl_inter"] = intercept, !["scl_slope"] = scale ]
                 ELSE h,
      hdrfile |-> IF changed
                  THEN write_header([ h EXCEPT !["scl_inter"] = intercept,
                                               !["scl_slope"] = scale ])
                  ELSE stored,
      hdrmode |-> IF changed THEN "rb+" ELSE NoValue,
      ret |-> IF changed THEN Rescaled(x, intercept, scale)
              ELSE Rescaled(x, h["scl_inter"], h["scl_slope"]),
      entered |-> TRUE, rewrote |-> changed,
      minval |-> minval, intercept |-> intercept ]

\* lines 476-481, given the candidate intercept
WithIntercept(x, h, dt, stored, minval, intercept) ==
    LET scale == NewScale(x, intercept, dt, h)
    IN  MarkDown(x, h, stored, minval, intercept, scale,
                 HeaderChanged(scale, intercept, h))

\* what a prewrite call that takes the branch of line 463 does
RescaleBranch(x, h, dt, um, d, stored) ==
    LET minval == MinVal(x, h, um, d)
    IN  WithIntercept(x, h, dt, stored, minval, Intercept(dt, minval))

\* what a prewrite call that returns early or skips the branch does
PassThrough(x, h, stored, ret) ==
    [ header |-> h, hdrfile |-> stored, hdrmode |-> NoValue, ret |-> ret,
      entered |-> FALSE, rewrote |-> FALSE, minval |-> R(0), intercept |-> R(0) ]

\* prewrite takes the branch only on growth of the maximum
prewrite_range_only(x, h, dt, um, d, stored) ==
    IF ~um THEN PassThrough(x, h, stored, x)
    ELSE LET scaled_x == Rescaled(x, h["scl_inter"], h["scl_slope"])
         IN  IF RLt(RMax(d), RMax(scaled_x))
             THEN RescaleBranch(x, h, dt, um, d, stored)
             ELSE PassThrough(x, h, stored, scaled_x)

\* prewrite updates the header record and leaves the header resource alone
prewrite_no_rewrite(x, h, dt, um, d, stored) ==
    IF ~um THEN PassThrough(x, h, stored, x)
    ELSE LET scaled_x == Rescaled(x, h["scl_inter"], h["scl_slope"])
         IN  IF RescaleNeeded(x, scaled_x, d)
             THEN [ RescaleBranch(x, h, dt, um, d, stored) EXCEPT !.hdrfile = stored ]
             ELSE PassThrough(x, h, stored, scaled_x)

\* Nifti1.prewrite(x) on header h, element type dt and stored samples d, with
\* `stored` the header record the header resource holds
prewrite(x, h, dt, um, d, stored) ==
    IF ~um THEN PassThrough(x, h, stored, x)
    ELSE LET scaled_x == Rescaled(x, h["scl_inter"], h["scl_slope"])
         IN  IF RescaleNeeded(x, scaled_x, d)
             THEN RescaleBranch(x, h, dt, um, d, stored)
             ELSE PassThrough(x, h, stored, scaled_x)

\* the values a float may become when it is stored as element type sc: the
\* truncated value when it is in range; conversion of an out-of-range value
\* is undefined in C, and may wrap or saturate
CastOutcomes(q, sc) ==
    IF sc \notin IntegerTypes THEN { q }
    ELSE LET lo == IntegerMin(sc)
             hi == IntegerMax(sc)
         IN  IF q[2] = 0 THEN { R(0), R(lo), R(hi) }
             ELSE LET k == Trunc(q)
                  IN  IF lo <= k /\ k <= hi THEN { R(k) }
                      ELSE { R(lo + ((k - lo) % (hi - lo + 1))),
                             R(IF k < lo THEN lo ELSE hi) }

\* the arrays a caller writes: all of the stored array, or a run of it
DataValues == { R(-3), R(700) }

\* all arrays of length n over DataValues
ArraysOf(n) == [ 1..n -> DataValues ]

\* a write of x to the samples off+1 .. off+Len(x)
Writes == { [ x |-> x, off |-> off ] :
              x \in UNION { ArraysOf(n) : n \in 1..NVox }, off \in 0..(NVox - 1) }

Prewrite ==
    /\ pc = "idle" /\ attached /\ status = NoError /\ mode \in { "w", "r+" }
    /\ nwrites < MaxWrites
    /\ \E w \in Writes :
          /\ w.off + Len(w.x) <= NVox
          /\ \E r \in { prewrite(w.x, header, dtype, use_memmap, data, hdrfile) } :
                 /\ header' = r.header
                 /\ hdrfile' = r.hdrfile
                 /\ hdrmode' = r.hdrmode
                 /\ payload' = r.ret
                 /\ call' = [ x |-> w.x, off |-> w.off,
                              old_slope |-> header["scl_slope"],
                              old_inter |-> header["scl_inter"],
                              old_max |-> RMax(data),
                              old_min |-> RMin(postread(data, header, use_memmap)),
                              prev_x |-> call.x,
                              entered |-> r.entered, rewrote |-> r.rewrote,
                              minval |-> r.minval, intercept |-> r.intercept ]
    /\ pc' = "commit"
    /\ nwrites' = nwrites + 1
    /\ UNCHANGED << status, byteorder, dtype, ndim, canonical, t, attached,
                    mode, use_memmap, data >>

\* the caller stores the array prewrite returned into the data block
Commit ==
    /\ pc = "commit"
    /\ \E stored \in [ 1..Len(payload) -> UNION { CastOutcomes(payload[i], dtype.sctype) :
                                                   i \in 1..Len(payload) } ] :
          /\ \A i \in 1..Len(payload) : stored[i] \in CastOutcomes(payload[i], dtype.sctype)
          /\ data' = [ i \in 1..Len(data) |->
                         IF call.off < i /\ i <= call.off + Len(payload)
                         THEN stored[i - call.off] ELSE data[i] ]
    /\ pc' = "idle"
    /\ UNCHANGED << header, status, byteorder, dtype, ndim, canonical, t, attached,
                    mode, use_memmap, hdrfile, hdrmode, payload, call, nwrites >>

\* headers of existing files opened for update
WriteHeaders ==
    { [ header_defaults EXCEPT !["datatype"] = c,
                               !["bitpix"] = ItemSize(datatype2sctype[c]) * 8,
                               !["dim"] = DimOf(3),
                               !["scl_slope"] = R(2), !["scl_inter"] = R(-3) ] :
        c \in { UBYTE, UINT16 } }

\* the samples an existing file holds
StoredArrays == { [ i \in 1..NVox |-> IF i = 1 THEN R(100) ELSE R(0) ] }

\* the sessions followed: new files of four element types, one of them also
\* without memory mapping, and existing files in either byte order
Constructions ==
    { ConstructWrite(sc, TRUE) : sc \in { "uint8", "int8", "uint16", "float32" } }
    \cup
    { ConstructWrite("uint8", FALSE) }
    \cup
    { ConstructRead(h, bo, "r+", TRUE, d) :
        h \in WriteHeaders, bo \in ByteOrders, d \in StoredArrays }

InitWrite ==
    /\ \E c \in Constructions :
          /\ c.status = NoError
          /\ header = c.header /\ status = c.status /\ byteorder = c.byteorder
          /\ dtype = c.dtype /\ ndim = c.ndim /\ canonical = c.canonical
          /\ t = c.t /\ attached = c.attached /\ mode = c.mode
          /\ use_memmap = c.use_memmap /\ data = c.data /\ hdrfile = c.hdrfile
    /\ hdrmode = NoValue /\ pc = "idle" /\ payload = Nothing
    /\ call = NoCall /\ nwrites = 0

NextWrite == Prewrite \/ Commit

SpecWrite == InitWrite /\ [][NextWrite]_vars

-----------------------------------------------------------------------------
(* Properties of construction and of the geometry resolver, under SpecOpen *)

\* a construction for reading that got as far as calling transform()
ReachedTransform ==
    /\ status.exc # "closed" /\ mode # "w"
    /\ header["magic"] \in { "n+1", "ni1" }
    /\ header["datatype"] \in { 2, 4, 8, 16, 32, 64, 256, 512, 768, 1024, 1280, 1792 }
    /\ header["dim"][1] \in { 3, 4 }

QuaternOfHeader ==
    quatern2mat(header["quatern_b"], header["quatern_c"], header["quatern_d"],
                header["qoffset_x"], header["qoffset_y"], header["qoffset_z"],
                header["pixdim"][2], header["pixdim"][3], header["pixdim"][4],
                header["pixdim"][1])

SrowOfHeader ==
    << header["srow_x"], header["srow_y"], header["srow_z"],
       << R(0), R(0), R(0), R(1) >> >>

QfacValid == header["pixdim"][1] = R(1) \/ header["pixdim"][1] = R(-1)

C2_InvalidQfacAlwaysFails ==
    (ReachedTransform /\ ~QfacValid) =>
        /\ status = [ exc |-> "Nifti1FormatError",
                      msg |-> "invalid qfac: orientation unknown" ]
        /\ t = Nothing
        /\ ~attached

\* an invalid factor with neither code positive
C2_Witness ==
    /\ ReachedTransform /\ header["pixdim"][1] = Half
    /\ header["qform_code"] <= 0 /\ header["sform_code"] <= 0
    /\ status.exc = "Nifti1FormatError"

\* C3: a read-open of a header whose magic is neither sentinel raises the
\* format error, and does so before the element type is resolved, before the
\* transform is computed and before the data block is attached.
C3_MagicRejectedFirst ==
    (status.exc # "closed" /\ mode # "w" /\ header["magic"] \notin { "n+1", "ni1" }) =>
        /\ status = [ exc |-> "Nifti1FormatError", msg |-> "" ]
        /\ dtype = NoDtype
        /\ t = Nothing
        /\ ~attached /\ data = Nothing

\* a bad magic on a header whose element-type code has no translation either
C3_Witness ==
    /\ status.exc = "Nifti1FormatError" /\ mode = "r"
    /\ header["magic"] = "nXX"
    /\ header["datatype"] = RGB

C8_TypeTable ==
    /\ DOMAIN datatype2sctype = { 2, 4, 8, 16, 32, 64, 256, 512, 768, 1024, 1280, 1792 }
    /\ \A c \in DOMAIN datatype2sctype : sctype2datatype[datatype2sctype[c]] = c
    /\ (status.exc # "closed" /\ mode # "w" /\ header["magic"] \in { "n+1", "ni1" }) =>
          IF header["datatype"] \in { 2, 4, 8, 16, 32, 64, 256, 512, 768, 1024, 1280, 1792 }
          THEN /\ status.exc # "KeyError"
               /\ dtype.sctype = datatype2sctype[header["datatype"]]
               /\ sctype2datatype[dtype.sctype] = header["datatype"]
          ELSE /\ status.exc = "KeyError"
               /\ dtype = NoDtype /\ t = Nothing /\ ~attached

\* a read-open of an RGB file
C8_Witness ==
    /\ status.exc = "KeyError" /\ mode = "r"
    /\ header["magic"] = "n+1"
    /\ header["datatype"] = 128

-----------------------------------------------------------------------------
(* Properties of prewrite, under SpecWrite.  `call` holds what the last    *)
(* call was given and what the header and the samples were before it.      *)

\* prewrite has returned and the caller has not yet stored the payload
Returned == nwrites > 0 /\ pc = "commit"

FullShape == Len(call.x) = Len(data)

\* the array of the call rescaled under the pair the header held before it
ScaledBefore ==
    [ i \in 1..Len(call.x) |->
        RDiv(RSub(call.x[i], call.old_inter), call.old_slope) ]

\* the array of the call rescaled under the pair the header resource holds
ScaledStored ==
    [ i \in 1..Len(call.x) |->
        RDiv(RSub(call.x[i], hdrfile["scl_inter"]), hdrfile["scl_slope"]) ]

PairUnchanged ==
    header["scl_slope"] = call.old_slope /\ header["scl_inter"] = call.old_inter

\* the minimum the call takes the intercept from
MinOfCall == IF FullShape THEN RMin(call.x) ELSE RMin2(RMin(call.x), call.old_min)

\* C5: a prewrite call given the same full-shape array as the call before it
\* leaves scl_slope and scl_inter as that call left them and rewrites no header.
C5_RescaleIdempotent ==
    (Returned /\ nwrites >= 2 /\ FullShape /\ call.x = call.prev_x) =>
        /\ PairUnchanged
        /\ ~call.rewrote
        /\ hdrmode = NoValue
        /\ hdrfile["scl_slope"] = call.old_slope
        /\ hdrfile["scl_inter"] = call.old_inter

\* the same array twice, the first call having set a new slope and intercept
C5_Witness ==
    /\ Returned /\ nwrites = 2 /\ FullShape /\ call.x = call.prev_x
    /\ use_memmap /\ call.entered
    /\ header["scl_slope"] = Rat(703, 255) /\ header["scl_inter"] = R(-3)

\* C6 as stated: in the branch, the candidate intercept is the minimum when the
\* on-disk element type is unsigned, and otherwise the minimum when that is
\* positive and zero when it is not.
C6_InterceptByType ==
    (Returned /\ call.entered) =>
        call.intercept =
            IF dtype.sctype \in { "uint8", "uint16", "uint32", "uint64" }
            THEN MinOfCall
            ELSE IF RLt(R(0), MinOfCall) THEN MinOfCall ELSE R(0)

\* C7: when a prewrite call has changed scl_slope or scl_inter, the header
\* resource, opened 'rb+', holds the new pair by the time the payload is
\* returned; the payload awaiting the caller's write is always the array
\* rescaled under the pair the header resource holds.
C7_HeaderBeforePayload ==
    /\ attached =>
          /\ hdrfile["scl_slope"] = header["scl_slope"]
          /\ hdrfile["scl_inter"] = header["scl_inter"]
    /\ (Returned /\ ~PairUnchanged) =>
          /\ call.rewrote /\ hdrmode = "rb+"
          /\ hdrfile = header
    /\ (Returned /\ use_memmap) => payload = ScaledStored

\* a call that changed the pair, its payload not yet stored
C7_Witness ==
    /\ Returned /\ use_memmap /\ ~PairUnchanged
    /\ hdrfile["scl_slope"] # call.old_slope
    /\ payload = ScaledStored /\ payload # ScaledBefore

\* C9 as stated: every call takes the branch exactly when the array has the
\* on-disk shape or its rescaled maximum exceeds the stored maximum; any
\* other call leaves the pair, rewrites nothing and returns
\* (x - scl_inter) / scl_slope.
C9_Original ==
    Returned =>
        /\ call.entered <=> (FullShape \/ RLt(call.old_max, RMax(ScaledBefore)))
        /\ ~call.entered =>
              /\ PairUnchanged /\ ~call.rewrote
              /\ payload = ScaledBefore

\* C9, amended: with memory mapping in use, a call takes the branch exactly
\* when the array has the on-disk shape or its rescaled maximum exceeds the
\* stored maximum, and any other call leaves the pair, rewrites nothing and
\* returns (x - scl_inter) / scl_slope; without memory mapping no call takes
\* the branch, the pair is left, nothing is rewritten and x itself is returned.
C9_BranchAndFrame ==
    Returned =>
        /\ use_memmap =>
              /\ call.entered <=> (FullShape \/ RLt(call.old_max, RMax(ScaledBefore)))
              /\ ~call.entered => payload = ScaledBefore
        /\ ~use_memmap => (~call.entered /\ payload = call.x)
        /\ ~call.entered =>
              /\ PairUnchanged /\ ~call.rewrote /\ hdrmode = NoValue
              /\ hdrfile["scl_slope"] = call.old_slope
              /\ hdrfile["scl_inter"] = call.old_inter

\* a partial write within range under a pair that is not the identity
C9_Witness ==
    /\ Returned /\ use_memmap /\ ~FullShape /\ ~call.entered
    /\ header["scl_slope"] # R(1)
    /\ payload = ScaledBefore /\ payload # call.x

\* C10: in a session that started from the schema defaults (scl_slope 1.0), no
\* prewrite call lowers the stored slope, and the slope is never zero.
C10_SlopeNeverShrinks ==
    (mode = "w") =>
        /\ RLe(R(1), header["scl_slope"])
        /\ header["scl_slope"] # R(0)
        /\ hdrfile["scl_slope"] = header["scl_slope"]
        /\ nwrites > 0 => RLe(call.old_slope, header["scl_slope"])

\* the slope raised by each of two calls
C10_Witness ==
    /\ mode = "w" /\ nwrites = 2
    /\ RLt(R(1), call.old_slope)
    /\ RLt(call.old_slope, header["scl_slope"])

=============================================================================
